---- MODULE Spec2Model ----
(***************************************************************************)
(* Winscope ADB proxy (tools/winscope/src/adb/winscope_proxy.py): the      *)
(* authenticated request router, the Start/End/Status trace endpoints, the *)
(* TRACE_THREADS registry and the TraceThread session with its keep-alive  *)
(* timer.                                                                  *)
(*                                                                         *)
(* Threads of the program and how they appear here:                        *)
(*   - the HTTP thread: HTTPServer.serve_forever serves one request at a   *)
(*     time, so a single handler position (hpc) suffices;                  *)
(*   - one TraceThread per session (T[s].thread is its position in run()); *)
(*   - one threading.Timer thread per armed keep-alive timer.              *)
(* Time is abstract: the elapsing of KEEP_ALIVE_INTERVAL_S for an armed    *)
(* timer and of COMMAND_TIMEOUT_S for a wait are events that may happen    *)
(* whenever the timer is armed, respectively the wait is pending.          *)
(*                                                                         *)
(* Not modelled: the devices, fetch and runadbcmd endpoints, the contents  *)
(* of stdout and of the signal handler log, and call_adb failing to launch *)
(* adb after the session's own adb shell was launched (lines 182-183).     *)
(***************************************************************************)
EXTENDS Naturals, FiniteSets, Sequences, TLC

\* ------------------------------------------------------------------ bounds
\* TraceThread objects ever constructed in one behaviour.
MaxSessions == 2
\* Keep-alive callbacks of one session that are inside end_trace at once.
MaxCallbacks == 1
\* Iterations of the cleanup loop of run(); stands for
\* int(COMMAND_TIMEOUT_S / retry_interval), which is 150 in the program.
MaxSentinelPolls == 2

Sessions == 1..MaxSessions
Devices == {"D1", "D2"}
Targets == {"T1", "PerfettoTrace"}

\* ------------------------------------------------- values of the requests
NoHeader == "<no header>"
NoSegment == "<no segment>"
NoKey == "<no key>"
NA == "-"
secret_token == "secret"

VARIABLES
  TRACE_THREADS,  \* device id -> (target id -> session), both partial
  T,              \* the TraceThread objects, by session number
  nSess,          \* how many TraceThread objects have been constructed
  hpc,            \* position of the HTTP thread
  hs,             \* the session the HTTP thread is operating on (0: none)
  resp            \* the response of the request served last

vars == <<TRACE_THREADS, T, nSess, hpc, hs, resp>>

\* A TraceThread before its construction.
NoThread ==
  [device_id |-> NA, target_id |-> NA,
   process |-> "none",            \* "none" | "running" | "exited"
   interrupted |-> FALSE,         \* the process got SIGINT and still runs
   thread |-> "done",             \* position of run()
   polls |-> 0,                   \* loop index i of run()
   err |-> "unset",               \* "unset" | "empty" | "nonempty"
   success |-> FALSE,
   command_timed_out |-> FALSE,
   keep_alive_timer |-> "none",   \* state of the Timer the attribute names
   leaked |-> 0,                  \* armed Timers the attribute no longer names
   stopping |-> 0]                \* timer threads inside end_trace

\* TraceThread.__init__ followed by Thread.start(): the shell is spawned and
\* run() is about to call reset_timer.
NewThread(d, t) ==
  [NoThread EXCEPT !.device_id = d, !.target_id = t,
                   !.process = "running", !.thread = "reset_cancel"]

\* Thread.is_alive() of a started TraceThread.
is_alive(s) == T[s].thread # "done"

\* --------------------------------------------------------------- registry
\* lines 418 and 424, 463 and 468: the registry reg has a session for the
\* pair.
HasEntry(reg, d, t) == d \in DOMAIN reg /\ t \in DOMAIN reg[d]

Registered(d, t) == HasEntry(TRACE_THREADS, d, t)

\* lines 405-411 without the else branch: the device always gets a new map.
RegistryCreate_newMap(reg, d, t, s) ==
  [x \in DOMAIN reg \cup {d} |-> IF x = d THEN [y \in {t} |-> s] ELSE reg[x]]

\* lines 405-411: insert or overwrite the (device, target) slot.
RegistryCreate(reg, d, t, s) ==
  IF d \notin DOMAIN reg
    THEN [x \in DOMAIN reg \cup {d} |->
            IF x = d THEN [y \in {t} |-> s] ELSE reg[x]]
    ELSE [reg EXCEPT ![d] =
            [y \in DOMAIN reg[d] \cup {t} |-> IF y = t THEN s ELSE reg[d][y]]]

\* lines 455-458 without lines 457-458: the device keeps its empty map.
RegistryRemove_keepDevice(reg, d, t) ==
  [reg EXCEPT ![d] = [y \in DOMAIN reg[d] \ {t} |-> reg[d][y]]]

\* lines 455-458 popping the device whatever its map still holds.
RegistryRemove_device(reg, d, t) == [x \in DOMAIN reg \ {d} |-> reg[x]]

\* lines 455-458: pop the target; pop the device once its map is empty.
RegistryRemove(reg, d, t) ==
  LET threads == [y \in DOMAIN reg[d] \ {t} |-> reg[d][y]]
  IN IF DOMAIN threads = {}
       THEN [x \in DOMAIN reg \ {d} |-> reg[x]]
       ELSE [reg EXCEPT ![d] = threads]

\* -------------------------------------------------------------- responses
\* respond(code, data, mime), lines 501-505; line is the line of the source
\* that produces the response or raises the exception it reports, raised
\* the type of that exception.
Response(code, body, line) ==
  [code |-> code, body |-> body, errors |-> <<>>, line |-> line,
   raised |-> "none"]

\* No request has been answered yet, or one is being served.
NoResponse == Response(0, "pending", 0)

\* ------------------------------------------- what the model stops tracking
\* A finished TraceThread that the registry does not name and that no
\* timer thread is still stopping: nothing can reach it any more.
Garbage(rec, s, reg) ==
  /\ rec.process # "none"
  /\ rec.thread = "done"
  /\ rec.stopping = 0
  /\ \A d \in DOMAIN reg : \A t \in DOMAIN reg[d] : reg[d][t] # s

\* The timers of a finished TraceThread: timeout() does nothing once
\* is_alive() is false (line 298), so whether they are armed is not kept,
\* unless the HTTP thread is inside reset_timer for this TraceThread.
TimersMoot(rec, s, pc, h) ==
  /\ rec.process # "none"
  /\ rec.thread = "done"
  /\ ~(h = s /\ pc \in {"status_assign", "status_start"})

Tidy(TT, reg, pc, h) ==
  [s \in Sessions |->
     IF Garbage(TT[s], s, reg) THEN NoThread
     ELSE IF TimersMoot(TT[s], s, pc, h)
       THEN [TT[s] EXCEPT !.keep_alive_timer = "dead", !.leaked = 0]
     ELSE TT[s]]

\* What the client receives of a response: the status code and the body
\* (the error list is the body of an End response, decoded).
Sent(response) ==
  [code |-> response.code, body |-> response.body,
   errors |-> response.errors]

\* The value of every variable after a step of the program.
State(TT, reg, n, pc, h, response) ==
  [T |-> Tidy(TT, reg, pc, h), TRACE_THREADS |-> reg, nSess |-> n,
   hpc |-> pc, hs |-> h, resp |-> response]

\* The step that leads to the state state.
Becomes(state) ==
  \E st \in {state} :
    /\ T' = st.T
    /\ TRACE_THREADS' = st.TRACE_THREADS
    /\ nSess' = st.nSess
    /\ hpc' = st.hpc
    /\ hs' = st.hs
    /\ resp' = Sent(st.resp)

Step(TT, reg, n, pc, h, response) ==
  Becomes(State(TT, reg, n, pc, h, response))

\* The HTTP thread is inside reset_timer and run() of that TraceThread is
\* not (any more): the rest of reset_timer commutes with every step of the
\* other threads, so it is taken first.
StatusPending ==
  /\ hpc \in {"status_assign", "status_start"}
  /\ T[hs].thread \notin {"reset_cancel", "reset_assign", "reset_start"}

\* A step of a session thread or of a timer thread.
ThreadStep(TT) ==
  /\ ~StatusPending
  /\ Step(TT, TRACE_THREADS, nSess, hpc, hs, resp)

\* ------------------------------------------------------ keep-alive timer
\* Timer.cancel(): an armed timer will not fire, a timer not yet started
\* will not fire once started, a fired or cancelled one is unaffected.
Cancel(timer) ==
  CASE timer = "armed" -> "dead"
    [] timer = "created" -> "created_cancelled"
    [] OTHER -> timer

\* reset_timer, lines 305-306.
ResetCancel(rec) ==
  [rec EXCEPT !.keep_alive_timer = Cancel(rec.keep_alive_timer)]

\* reset_timer, lines 307-308: the attribute names a new Timer; an armed
\* Timer it named before stays armed with nothing left to cancel it.
ResetAssign(rec) ==
  [rec EXCEPT !.keep_alive_timer = "created",
              !.leaked = IF rec.keep_alive_timer = "armed" THEN @ + 1 ELSE @]

\* reset_timer, line 309: Thread.start() of the Timer the attribute names
\* now; it raises RuntimeError for a Timer that was started before.
StartRaises(rec) == rec.keep_alive_timer \in {"armed", "dead"}

ResetStart(rec) ==
  [rec EXCEPT !.keep_alive_timer =
     CASE rec.keep_alive_timer = "created" -> "armed"
       [] rec.keep_alive_timer = "created_cancelled" -> "dead"
       [] OTHER -> @]

\* Popen.send_signal: a no-op once the process has exited.
SendSignal(rec) ==
  [rec EXCEPT !.interrupted = (rec.process = "running")]

\* end_trace, lines 312-317: cancel the timer, deliver SIGINT.
EndTraceBegin(rec) == SendSignal(ResetCancel(rec))

\* Popen.wait(timeout=...) raises subprocess.TimeoutExpired (line 322);
\* line 323 catches the builtin TimeoutError.
WaitTimeoutRaises == "TimeoutExpired"
EndTraceCatches(exc) == exc = "TimeoutError"

\* The process is gone.
Exited(rec) == [rec EXCEPT !.process = "exited", !.interrupted = FALSE]

\* line 326: Popen.kill().
Kill(rec) == Exited(rec)

\* ------------------------------------------------------ session thread
\* run(), line 332: the three steps of reset_timer.
RunResetCancel(s) ==
  /\ T[s].thread = "reset_cancel"
  /\ ThreadStep([T EXCEPT ![s] =
                   [ResetCancel(@) EXCEPT !.thread = "reset_assign"]])

RunResetAssign(s) ==
  /\ T[s].thread = "reset_assign"
  /\ ThreadStep([T EXCEPT ![s] =
                   [ResetAssign(@) EXCEPT !.thread = "reset_start"]])

\* A RuntimeError of Timer.start() ends run() before communicate().
RunResetStart(s) ==
  /\ T[s].thread = "reset_start"
  /\ ThreadStep([T EXCEPT ![s] =
                   IF StartRaises(@)
                     THEN [@ EXCEPT !.thread = "done"]
                     ELSE [ResetStart(@) EXCEPT !.thread = "communicate"]])

\* run(), line 333: communicate() returns once the process has exited.
Communicate(s) ==
  /\ T[s].thread = "communicate"
  /\ T[s].process = "exited"
  /\ \E e \in {"empty", "nonempty"} :
       ThreadStep([T EXCEPT ![s].err = e, ![s].thread = "poll",
                            ![s].polls = 0])

\* lines 341-344 without the test for PerfettoTrace.
Success_stderr(rec) == rec.err = "empty"

\* run(), lines 341-344.
Success(rec) ==
  IF rec.target_id = "PerfettoTrace" THEN TRUE ELSE rec.err = "empty"

\* run(), lines 336-349: one iteration of the cleanup loop; trace_ok is
\* whether the status file read back as TRACE_OK.
PollResult(rec, trace_ok) ==
  IF trace_ok
    THEN [rec EXCEPT !.success = Success(rec), !.polls = 0,
                     !.thread = "done"]
    ELSE IF rec.polls + 1 < MaxSentinelPolls
      THEN [rec EXCEPT !.polls = @ + 1]
      ELSE [rec EXCEPT !.polls = 0, !.command_timed_out = TRUE,
                       !.thread = "done"]

Poll(s) ==
  /\ T[s].thread = "poll"
  /\ \E trace_ok \in BOOLEAN :
       ThreadStep([T EXCEPT ![s] = PollResult(@, trace_ok)])

\* The remote shell exits (the trap handler finished, the start command
\* failed under set -e, or the device went away).
ProcessExit(s) ==
  /\ T[s].process = "running"
  /\ ThreadStep([T EXCEPT ![s] = Exited(@)])

\* ------------------------------------------------------- timer threads
\* timeout(), lines 297-300, entered when the interval of a Timer elapses,
\* up to the SIGINT of end_trace.
Timeout(rec) ==
  IF rec.thread # "done"
    THEN [EndTraceBegin(rec) EXCEPT !.stopping = @ + 1]
    ELSE rec

\* The Timer the attribute names fires.
TimerFires(s) ==
  /\ T[s].keep_alive_timer = "armed"
  /\ T[s].stopping < MaxCallbacks
  /\ ThreadStep([T EXCEPT ![s] =
                   Timeout([@ EXCEPT !.keep_alive_timer = "dead"])])

\* A Timer the attribute no longer names fires.
LeakedTimerFires(s) ==
  /\ T[s].leaked > 0
  /\ T[s].stopping < MaxCallbacks
  /\ ThreadStep([T EXCEPT ![s] = Timeout([@ EXCEPT !.leaked = @ - 1])])

\* end_trace in a timer thread, lines 322-326: COMMAND_TIMEOUT_S elapsed
\* with the process still running.  An exception that is not caught ends
\* the timer thread.
CallbackWaitTimesOut(s) ==
  /\ T[s].stopping > 0
  /\ T[s].process = "running"
  /\ ThreadStep([T EXCEPT ![s] =
                   IF EndTraceCatches(WaitTimeoutRaises)
                     THEN Kill(@)
                     ELSE [@ EXCEPT !.stopping = @ - 1]])

\* end_trace in a timer thread, lines 322 and 327: wait() and then join()
\* return.
CallbackReturns(s) ==
  /\ T[s].stopping > 0
  /\ T[s].process = "exited"
  /\ T[s].thread = "done"
  /\ ThreadStep([T EXCEPT ![s].stopping = @ - 1])

\* ----------------------------------------------------------------- router
Exception(type, line) == [type |-> type, line |-> line]

\* lines 486-498: the (method, name) pairs with an endpoint.
endpoints ==
  {<<"GET", "devices">>, <<"GET", "status">>, <<"GET", "fetch">>,
   <<"POST", "runadbcmd">>, <<"POST", "starttrace">>, <<"POST", "endtrace">>}

\* line 157 with `and` for `or`: only a non-empty wrong token is rejected.
TokenRejected_and(token) ==
  token \notin {NoHeader, ""} /\ token # secret_token

\* line 157: `not token or token != secret_token`.
TokenRejected(token) ==
  token \in {NoHeader, ""} \/ token # secret_token

\* lines 164-173 with `except Exception` as the first clause.
RouterExcept_generic(ex) ==
  [Response(500, "repr(ex)", ex.line) EXCEPT !.raised = ex.type]

\* lines 164-173: the except clauses of RequestRouter.process, in order.
\* The KeyError of the table lookup shows the RequestType of its key.
RouterExcept(ex) ==
  [(CASE ex.type = "KeyError(RequestType)" ->
           Response(400, "Unknown endpoint", ex.line)
      [] ex.type = "KeyError" -> Response(500, "repr(ex)", ex.line)
      [] ex.type = "AdbError" -> Response(500, "str(ex)", ex.line)
      [] ex.type = "BadRequest" -> Response(400, "str(ex)", ex.line)
      [] OTHER -> Response(500, "repr(ex)", ex.line))
   EXCEPT !.raised = ex.type]

\* line 211: the device id is present and matches [A-Za-z0-9._:\-]+ .
ValidDeviceId(segment) == segment \notin {NoSegment, "bad id!"}

\* get_request, lines 220-227: headers[...] of a missing header is None,
\* and int(None) raises TypeError; int of a non-number raises ValueError.
GetRequestRaises(r) ==
  CASE r.content_length = NoHeader -> Exception("TypeError", 222)
    [] r.content_length = "abc" -> Exception("BadRequest", 226)
    [] OTHER -> Exception("none", 0)

\* The request is answered and nothing else changes.
Reply(response) == State(T, TRACE_THREADS, nSess, "idle", 0, response)

\* An exception reaches the router.
Raise(ex) == Reply(RouterExcept(ex))

\* ------------------------------------------------------------- endpoints
\* lines 390-414 with the registry written (lines 405-411) before the
\* TraceThread is constructed (line 404).
StartTrace_registerFirst(r) ==
  LET d == r.device
      target_id == r.targetId
      s == nSess + 1
  IN IF GetRequestRaises(r).type # "none" THEN Raise(GetRequestRaises(r))
     ELSE IF target_id = NoKey THEN Raise(Exception("TypeError", 395))
     ELSE IF ~r.adb_launches
       THEN State(T, RegistryCreate(TRACE_THREADS, d, target_id, s), nSess,
                  "idle", 0, RouterExcept(Exception("AdbError", 287)))
     ELSE State([x \in Sessions \cup {s} |->
                   IF x = s THEN NewThread(d, target_id) ELSE T[x]],
                RegistryCreate(TRACE_THREADS, d, target_id, s),
                s, "idle", 0, Response(200, "", 414))

\* The endpoints and the router are operators from the request and the
\* current state to the state in which the handler leaves the program (or
\* blocks); Serve is the action that takes the step.

\* StartTraceEndpoint.process_with_device, lines 390-414.  adb_launches is
\* whether the OS can launch adb for the session's shell (lines 282-288).
StartTrace(r) ==
  LET d == r.device
      target_id == r.targetId
      s == nSess + 1
  IN IF GetRequestRaises(r).type # "none" THEN Raise(GetRequestRaises(r))
     ELSE IF target_id = NoKey THEN Raise(Exception("TypeError", 395))
     ELSE IF ~r.adb_launches THEN Raise(Exception("AdbError", 287))
     ELSE State([x \in Sessions \cup {s} |->
                   IF x = s THEN NewThread(d, target_id) ELSE T[x]],
                RegistryCreate(TRACE_THREADS, d, target_id, s),
                s, "idle", 0, Response(200, "", 414))

\* lines 432-442 without the test of lines 435-438: no timeout entry.
EndErrors_noTimeout(rec) ==
  IF ~rec.success THEN <<"Error ending trace">> ELSE <<>>

\* EndTraceEndpoint.process_with_device, lines 432-442: the error list.
EndErrors(rec) ==
  (IF rec.command_timed_out THEN <<"timed out during cleanup">> ELSE <<>>)
  \o (IF ~rec.success THEN <<"Error ending trace">> ELSE <<>>)

\* lines 432-459 with the pops of lines 455-458 ahead of line 444.
EndFinish_popFirst(s) ==
  State(T, RegistryRemove(TRACE_THREADS, T[s].device_id, T[s].target_id),
        nSess, "idle", 0,
        IF T[s].err = "unset"
          THEN RouterExcept(Exception("TypeError", 445))
          ELSE [Response(200, "errors", 459) EXCEPT
                  !.errors = EndErrors(T[s])])

\* EndTraceEndpoint.process_with_device, lines 432-459.  thread.out is
\* still the tuple (None,) of line 278 when run() never reached
\* communicate(); bytes + tuple raises TypeError at line 445.
EndFinish(s) ==
  IF T[s].err = "unset"
    THEN Raise(Exception("TypeError", 445))
    ELSE State(T,
               RegistryRemove(TRACE_THREADS, T[s].device_id, T[s].target_id),
               nSess, "idle", 0,
               [Response(200, "errors", 459) EXCEPT
                  !.errors = EndErrors(T[s])])

\* EndTraceEndpoint.process_with_device, lines 417-431, up to the SIGINT
\* of end_trace.
EndTrace(r) ==
  LET d == r.device
      target_id == r.targetId
  IN IF d \notin DOMAIN TRACE_THREADS
       THEN Raise(Exception("BadRequest", 419))
     ELSE IF GetRequestRaises(r).type # "none"
       THEN Raise(GetRequestRaises(r))
     ELSE IF target_id \notin DOMAIN TRACE_THREADS[d]
       THEN Raise(Exception("BadRequest", 425))
     ELSE LET s == TRACE_THREADS[d][target_id]
          IN IF is_alive(s)
               THEN State([T EXCEPT ![s] = EndTraceBegin(@)], TRACE_THREADS,
                          nSess, "end_trace", s, NoResponse)
               ELSE EndFinish(s)

\* run() is inside its call of reset_timer (line 332).
InRunReset(rec) ==
  rec.thread \in {"reset_cancel", "reset_assign", "reset_start"}

\* line 473.
StatusBody(rec) == IF rec.thread # "done" THEN "True" ELSE "False"

\* StatusEndpoint.process_with_device, lines 465-473, the device having a
\* registry entry.  The three steps of reset_timer are taken one at a time
\* while run() is inside reset_timer itself, the only other code that
\* assigns or starts the timer; otherwise they are one step (a cancel by
\* end_trace commutes with them).
StatusOfDevice(r) ==
  LET d == r.device
  IN IF r.target = NoSegment
       THEN Raise(Exception("IndexError", 466))
     ELSE IF r.target \notin DOMAIN TRACE_THREADS[d]
       THEN Reply(Response(200, "False", 469))
     ELSE LET s == TRACE_THREADS[d][r.target]
          IN IF InRunReset(T[s])
               THEN State([T EXCEPT ![s] = ResetCancel(@)], TRACE_THREADS,
                          nSess, "status_assign", s, NoResponse)
               ELSE State([T EXCEPT ![s] =
                             ResetStart(ResetAssign(ResetCancel(@)))],
                          TRACE_THREADS, nSess, "idle", 0,
                          Response(200, StatusBody(T[s]), 473))

\* lines 462-473 with the answer of line 469 for a device without entry.
Status_false(r) ==
  IF r.device \notin DOMAIN TRACE_THREADS
    THEN Reply(Response(200, "False", 469))
    ELSE StatusOfDevice(r)

\* StatusEndpoint.process_with_device, lines 462-473.
Status(r) ==
  IF r.device \notin DOMAIN TRACE_THREADS
    THEN Raise(Exception("BadRequest", 464))
    ELSE StatusOfDevice(r)

\* DeviceRequestEndpoint.process, lines 210-214.
DeviceRequest(r) ==
  IF ~ValidDeviceId(r.device) THEN Raise(Exception("BadRequest", 214))
  ELSE CASE r.name = "starttrace" -> StartTrace(r)
         [] r.name = "endtrace" -> EndTrace(r)
         [] r.name = "status" -> Status(r)

\* RequestRouter.process, lines 155-174.
process(r) ==
  IF TokenRejected(r.token)
    THEN Reply(Response(403, "Bad token", 158))
  ELSE IF <<r.method, r.name>> \in endpoints
    THEN DeviceRequest(r)
  ELSE Raise(Exception("KeyError(RequestType)", 163))

\* HTTPServer.serve_forever, line 549: the HTTP thread takes the next
\* request once the one before has been answered.
Serve(r) ==
  /\ hpc = "idle"
  /\ \E st \in {process(r)} :
       st.nSess <= MaxSessions /\ Becomes(st)

\* ------------------------------------------- the HTTP thread, continued
\* Status: reset_timer, lines 307-308.
StatusResetAssign ==
  /\ hpc = "status_assign"
  /\ Step([T EXCEPT ![hs] = ResetAssign(@)], TRACE_THREADS, nSess,
          "status_start", hs, resp)

\* Status: reset_timer, line 309, then the answer of line 473.
StatusResetStart ==
  /\ hpc = "status_start"
  /\ IF StartRaises(T[hs])
       THEN Becomes(Raise(Exception("RuntimeError", 309)))
       ELSE Step([T EXCEPT ![hs] = ResetStart(@)], TRACE_THREADS, nSess,
                 "idle", 0, Response(200, StatusBody(T[hs]), 473))

\* End: end_trace, lines 322-326, COMMAND_TIMEOUT_S elapsed with the
\* process still running.  An exception that end_trace does not catch
\* reaches the router.
EndWaitTimesOut ==
  /\ hpc = "end_trace"
  /\ T[hs].process = "running"
  /\ IF EndTraceCatches(WaitTimeoutRaises)
       THEN Step([T EXCEPT ![hs] = Kill(@)], TRACE_THREADS, nSess,
                 hpc, hs, resp)
       ELSE Becomes(Raise(Exception(WaitTimeoutRaises, 322)))

\* End: end_trace, lines 322 and 327, wait() and then join() return; then
\* lines 432-459.
EndTraceReturns ==
  /\ hpc = "end_trace"
  /\ T[hs].process = "exited"
  /\ T[hs].thread = "done"
  /\ Becomes(EndFinish(hs))

\* ---------------------------------------------------------- the requests
Request(token, method, name, device, target, cl, tid, adb) ==
  [token |-> token, method |-> method, name |-> name, device |-> device,
   target |-> target, content_length |-> cl, targetId |-> tid,
   adb_launches |-> adb]

\* Traces are started on one device only; the other one is a well-formed
\* device id that never has a session.
StartDevices == {"D1"}
OtherDevices == Devices \ StartDevices

\* GET /status/{device}/{target}
StatusRequests ==
  {Request(secret_token, "GET", "status", d, t, NA, NA, TRUE) :
     d \in StartDevices, t \in Targets \cup {NoSegment}}
  \cup {Request(secret_token, "GET", "status", d, "T1", NA, NA, TRUE) :
     d \in OtherDevices}
  \cup {Request(secret_token, "GET", "status", d, NoSegment, NA, NA, TRUE) :
     d \in {NoSegment, "bad id!"}}

\* POST /starttrace/{device}
StartRequests ==
  {Request(secret_token, "POST", "starttrace", d, NA, "ok", tid, TRUE) :
     d \in StartDevices, tid \in Targets}
  \cup {Request(secret_token, "POST", "starttrace", d, NA, "ok", "T1", FALSE) :
     d \in StartDevices}
  \cup {Request(secret_token, "POST", "starttrace", d, NA, cl, NoKey, TRUE) :
     d \in StartDevices, cl \in {NoHeader, "abc", "ok"}}
  \cup {Request(secret_token, "POST", "starttrace", d, NA, "ok", "T1", TRUE) :
     d \in {NoSegment}}

\* POST /endtrace/{device}
EndRequests ==
  {Request(secret_token, "POST", "endtrace", d, NA, "ok", tid, TRUE) :
     d \in StartDevices, tid \in Targets \cup {NoKey}}
  \cup {Request(secret_token, "POST", "endtrace", d, NA, "ok", "T1", TRUE) :
     d \in OtherDevices}
  \cup {Request(secret_token, "POST", "endtrace", d, NA, cl, "T1", TRUE) :
     d \in StartDevices, cl \in {NoHeader, "abc"}}
  \cup {Request(secret_token, "POST", "endtrace", d, NA, "ok", "T1", TRUE) :
     d \in {"bad id!"}}

\* Pairs of method and name without an endpoint.
UnknownRequests ==
  {Request(secret_token, "GET", "nosuch", "D1", "T1", "ok", "T1", TRUE),
   Request(secret_token, "GET", "endtrace", "D1", "T1", "ok", "T1", TRUE)}

Authenticated ==
  StatusRequests \cup StartRequests \cup EndRequests \cup UnknownRequests

\* Requests that an accepted token would let act on a session or would have
\* answered as an unknown endpoint, under each token the router rejects.
Unauthenticated ==
  {[r EXCEPT !.token = tok] :
     r \in {q \in Authenticated :
              /\ q.device \in StartDevices /\ q.adb_launches
              /\ q.content_length \in {NA, "ok"}
              /\ q.targetId \in {NA, "T1"} /\ q.target \in {NA, "T1"}},
     tok \in {NoHeader, "", "wrong"}}

Requests == Authenticated \cup Unauthenticated

\* ------------------------------------------------------- specification
Init ==
  /\ TRACE_THREADS = << >>
  /\ T = [s \in Sessions |-> NoThread]
  /\ nSess = 0
  /\ hpc = "idle"
  /\ hs = 0
  /\ resp = Sent(NoResponse)

Next ==
  \/ \E r \in Requests : Serve(r)
  \/ StatusResetAssign
  \/ StatusResetStart
  \/ EndWaitTimesOut
  \/ EndTraceReturns
  \/ \E s \in Sessions : RunResetCancel(s)
  \/ \E s \in Sessions : RunResetAssign(s)
  \/ \E s \in Sessions : RunResetStart(s)
  \/ \E s \in Sessions : Communicate(s)
  \/ \E s \in Sessions : Poll(s)
  \/ \E s \in Sessions : ProcessExit(s)
  \/ \E s \in Sessions : TimerFires(s)
  \/ \E s \in Sessions : LeakedTimerFires(s)
  \/ \E s \in Sessions : CallbackWaitTimesOut(s)
  \/ \E s \in Sessions : CallbackReturns(s)

Spec == Init /\ [][Next]_vars

\* ================================================================ claims
\* C1: a request whose token header is absent, empty or different from the
\* secret is answered 403 and no endpoint logic runs: the registry and every
\* session (its process, its thread, its timers, its flags) stay as they
\* are, whatever the method and the path.
C1_BadTokenIs403 ==
  hpc = "idle" =>
    \A r \in Unauthenticated :
      /\ process(r).resp.code = 403
      /\ process(r).TRACE_THREADS = TRACE_THREADS
      /\ process(r).T = T
      /\ process(r).nSess = nSess

\* A 403 was answered while a session was registered and running.
C1_Witness ==
  /\ resp.code = 403
  /\ \E s \in Sessions :
       /\ Registered(T[s].device_id, T[s].target_id)
       /\ T[s].process = "running"
       /\ T[s].keep_alive_timer = "armed"

C3_StartCreatesOneEntry ==
  (hpc = "idle" /\ nSess < MaxSessions) =>
    \A r \in StartRequests : \A st \in {process(r)} :
      st.resp.code = 200 =>
        LET d == r.device
            t == r.targetId
            entries(reg) ==
              {p \in Devices \X Targets : HasEntry(reg, p[1], p[2])}
        IN /\ st.nSess = nSess + 1
           /\ HasEntry(st.TRACE_THREADS, d, t)
           /\ st.TRACE_THREADS[d][t] = st.nSess
           /\ st.T[st.nSess] = NewThread(d, t)
           /\ DOMAIN st.TRACE_THREADS \subseteq Devices
           /\ \A x \in DOMAIN st.TRACE_THREADS :
                DOMAIN st.TRACE_THREADS[x] \subseteq Targets
           /\ \A p \in (Devices \X Targets) \ {<<d, t>>} :
                /\ HasEntry(st.TRACE_THREADS, p[1], p[2])
                     <=> Registered(p[1], p[2])
                /\ Registered(p[1], p[2]) =>
                     st.TRACE_THREADS[p[1]][p[2]] = TRACE_THREADS[p[1]][p[2]]
           /\ Cardinality(entries(st.TRACE_THREADS)) =
                Cardinality(entries(TRACE_THREADS))
                  + (IF Registered(d, t) THEN 0 ELSE 1)

\* A start request was accepted for a pair whose earlier session still
\* runs: the entry names the new session, and it is the only entry.
C3_Witness ==
  /\ nSess = 2
  /\ resp.code = 200 /\ resp.body = ""
  /\ T[1].device_id = T[2].device_id
  /\ T[1].target_id = T[2].target_id
  /\ T[1].process = "running"
  /\ DOMAIN TRACE_THREADS = {T[2].device_id}
  /\ DOMAIN TRACE_THREADS[T[2].device_id] = {T[2].target_id}
  /\ TRACE_THREADS[T[2].device_id][T[2].target_id] = 2

\* C4: once an end request for a registered pair has been answered the
\* registry has no entry for the pair, and an end request for a pair
\* without entry is answered 400 and changes nothing.
C4_EndRemovesEntry ==
  /\ [](hpc = "idle" =>
         \A r \in EndRequests : \A st \in {process(r)} :
           (ValidDeviceId(r.device) /\ r.content_length = "ok") =>
             IF Registered(r.device, r.targetId)
               THEN st.hpc = "idle" =>
                      ~HasEntry(st.TRACE_THREADS, r.device, r.targetId)
               ELSE /\ st.resp.code = 400
                    /\ st.TRACE_THREADS = TRACE_THREADS
                    /\ st.T = T /\ st.nSess = nSess /\ st.hpc = "idle")
  /\ [][(hpc = "end_trace" /\ hpc' = "idle") =>
          ~HasEntry(TRACE_THREADS', T[hs].device_id, T[hs].target_id)]_vars

\* C5: a session is stopped by the watchdog only through the expiry of the
\* timer its latest reset armed (so a session polled before each interval
\* elapses is never stopped by the watchdog), and once the watchdog's stop
\* sequence has ended the session is not alive any more.
C5_Watchdog ==
  [][\A s \in Sessions :
       /\ T'[s].stopping > T[s].stopping => T'[s].leaked = T[s].leaked
       /\ T'[s].stopping < T[s].stopping => T'[s].thread = "done"]_vars

\* C6: for two sessions registered on one device under different target
\* ids, an end request or a watchdog expiry for one of them leaves the
\* other's registry entry and the other session (process, thread, timers,
\* success and timed-out flags) as they are; the device keeps its map.
C6_Independent ==
  /\ [](hpc = "idle" =>
         \A r \in EndRequests : \A t2 \in Targets \ {r.targetId} :
           (/\ ValidDeviceId(r.device)
            /\ Registered(r.device, r.targetId)
            /\ Registered(r.device, t2))
           => \A st \in {process(r)} :
                /\ HasEntry(st.TRACE_THREADS, r.device, t2)
                /\ st.TRACE_THREADS[r.device][t2] = TRACE_THREADS[r.device][t2]
                /\ st.T[TRACE_THREADS[r.device][t2]] =
                     T[TRACE_THREADS[r.device][t2]])
  /\ [][\A s \in Sessions : \A t2 \in Targets \ {T[s].target_id} :
          (/\ \/ T'[s].stopping # T[s].stopping
              \/ hpc = "end_trace" /\ hs = s /\ hpc' = "idle"
           /\ Registered(T[s].device_id, T[s].target_id)
           /\ TRACE_THREADS[T[s].device_id][T[s].target_id] = s
           /\ Registered(T[s].device_id, t2))
          => /\ HasEntry(TRACE_THREADS', T[s].device_id, t2)
             /\ TRACE_THREADS'[T[s].device_id][t2] =
                  TRACE_THREADS[T[s].device_id][t2]
             /\ T'[TRACE_THREADS[T[s].device_id][t2]] =
                  T[TRACE_THREADS[T[s].device_id][t2]]]_vars

\* Of two sessions registered on one device, one was ended and removed;
\* the other is registered and still running.
C6_Witness ==
  /\ nSess = 2
  /\ resp.code = 200 /\ resp.body = "errors"
  /\ \E d \in DOMAIN TRACE_THREADS : \E t \in DOMAIN TRACE_THREADS[d] :
       /\ DOMAIN TRACE_THREADS[d] = {t}
       /\ T[TRACE_THREADS[d][t]].process = "running"
       /\ T[TRACE_THREADS[d][t]].thread = "communicate"
       /\ T[TRACE_THREADS[d][t]].keep_alive_timer = "armed"

\* C7: an authenticated end request for a pair with a registry entry is
\* answered 200 with a list of errors, never with a failure status,
\* whatever the state of the session.
C7_EndAnswers200 ==
  /\ [](hpc = "idle" =>
         \A r \in EndRequests : \A st \in {process(r)} :
           (/\ ValidDeviceId(r.device) /\ r.content_length = "ok"
            /\ Registered(r.device, r.targetId)
            /\ st.hpc = "idle")
           => st.resp.code = 200 /\ st.resp.body = "errors")
  /\ [][(hpc = "end_trace" /\ hpc' = "idle") =>
          (resp'.code = 200 /\ resp'.body = "errors")]_vars

\* C8: when the stop of a session does not signal completion within the
\* command timeout (the process outlives the wait, or the completion
\* sentinel is never read back), the end request is answered with an error
\* list holding a timeout entry, and the entry of the session is removed.
C8_TimeoutEntry ==
  /\ [](hpc = "idle" =>
         \A r \in EndRequests : \A st \in {process(r)} :
           (/\ ValidDeviceId(r.device) /\ r.content_length = "ok"
            /\ Registered(r.device, r.targetId)
            /\ st.hpc = "idle"
            /\ T[TRACE_THREADS[r.device][r.targetId]].command_timed_out)
           => /\ \E i \in DOMAIN st.resp.errors :
                   st.resp.errors[i] = "timed out during cleanup"
              /\ ~HasEntry(st.TRACE_THREADS, r.device, r.targetId))
  /\ [][(/\ hpc = "end_trace" /\ hpc' = "idle"
         /\ T[hs].process = "running" \/ T[hs].command_timed_out)
        => /\ \E i \in DOMAIN resp'.errors :
                resp'.errors[i] = "timed out during cleanup"
           /\ ~HasEntry(TRACE_THREADS', T[hs].device_id,
                        T[hs].target_id)]_vars

\* C9: the router turns every failure of an authenticated request into one
\* response: a (method, name) pair without endpoint gives 400 "Unknown
\* endpoint"; a BadRequest raised by an endpoint gives 400 with its message;
\* an AdbError gives 500 with its message; anything else raised gives 500
\* with the repr of the exception.  Nothing raised inside an endpoint is
\* reported as an unknown endpoint.
C9_RouterClassifies ==
  /\ [](hpc = "idle" =>
         \A r \in Authenticated : \A out \in {process(r).resp} :
           /\ <<r.method, r.name>> \notin endpoints
                => out.code = 400 /\ out.body = "Unknown endpoint"
           /\ <<r.method, r.name>> \in endpoints
                => out.body # "Unknown endpoint"
           /\ out.raised = "BadRequest"
                => out.code = 400 /\ out.body = "str(ex)"
           /\ out.raised = "AdbError"
                => out.code = 500 /\ out.body = "str(ex)"
           /\ out.raised \notin
                {"none", "BadRequest", "AdbError", "KeyError(RequestType)"}
                => out.code = 500 /\ out.body = "repr(ex)"
           /\ out.raised = "none" => out.code \in {0, 200})
  /\ [][(hpc # "idle" /\ hpc' = "idle") =>
          \/ resp'.code = 200
          \/ resp'.code = 500 /\ resp'.body = "repr(ex)"]_vars

\* Each kind of answer of the router has been given: this one is the 400
\* of a validation failure raised by the End endpoint for a device that
\* has a session for another target only.
C9_Witness ==
  /\ hpc = "idle"
  /\ resp.code = 400 /\ resp.body = "str(ex)"
  /\ TRACE_THREADS # << >>
  /\ \E r \in EndRequests :
       /\ r.device \in DOMAIN TRACE_THREADS
       /\ r.targetId \in Targets
       /\ ~Registered(r.device, r.targetId)
       /\ process(r).resp.raised = "BadRequest"
       /\ resp = Sent(process(r).resp)

\* C10: every malformed request is answered 400, never 500: a missing or
\* malformed device id, a missing or non-numeric Content-Length on start or
\* end, a start or end body without targetId, a status request without
\* target segment, an end request for a device or target without session.
C10_MalformedIs400 ==
  hpc = "idle" =>
    \A r \in Authenticated :
      (/\ <<r.method, r.name>> \in endpoints
       /\ \/ ~ValidDeviceId(r.device)
          \/ r.name \in {"starttrace", "endtrace"}
               /\ r.content_length \in {NoHeader, "abc"}
          \/ r.name \in {"starttrace", "endtrace"} /\ r.targetId = NoKey
          \/ r.name = "status" /\ r.target = NoSegment
          \/ r.name = "endtrace" /\ ~Registered(r.device, r.targetId))
      => process(r).resp.code = 400

\* C11: whenever the wait of a stop sequence elapses with the process
\* still running, the stop sequence kills the process; whenever a stop
\* sequence returns after the process exited in time, the output of the
\* process has been captured.
C11_Escalation ==
  [][\A s \in Sessions :
       LET ends == \/ T'[s].stopping < T[s].stopping
                   \/ hpc = "end_trace" /\ hs = s /\ hpc' # "end_trace"
       IN /\ (ends /\ T[s].process = "running")
               => T'[s].process = "exited"
          /\ (ends /\ T[s].process = "exited") => T[s].err # "unset"]_vars

\* C12: the cleanup loop runs after the process has ended and reads the
\* status file a bounded number of times.  A poll that reads the sentinel
\* ends the session with timed-out false and success true for PerfettoTrace,
\* otherwise true exactly when stderr is empty; when the last poll of the
\* bound does not read it either, timed-out becomes true and success stays
\* false.  A finished session is never both successful and timed out.
C12_Reconciliation ==
  \A s \in Sessions :
    /\ T[s].polls < MaxSentinelPolls
    /\ T[s].thread # "done" => ~T[s].success /\ ~T[s].command_timed_out
    /\ T[s].thread = "done" => ~(T[s].success /\ T[s].command_timed_out)
    /\ T[s].thread = "poll" =>
         /\ T[s].process = "exited"
         /\ T[s].err \in {"empty", "nonempty"}
         /\ \A trace_ok \in BOOLEAN : \A rec \in {PollResult(T[s], trace_ok)} :
              IF trace_ok
                THEN /\ rec.thread = "done"
                     /\ ~rec.command_timed_out
                     /\ rec.success <=> \/ T[s].target_id = "PerfettoTrace"
                                        \/ T[s].err = "empty"
                ELSE /\ ~rec.success
                     /\ rec.command_timed_out
                          <=> T[s].polls + 1 = MaxSentinelPolls
                     /\ rec.thread = "done" <=> rec.command_timed_out
                     /\ rec.thread # "done" =>
                          rec.thread = "poll" /\ rec.polls = T[s].polls + 1

\* One session ended COMPLETED with a non-empty stderr (PerfettoTrace),
\* another one TIMED_OUT.
C12_Witness ==
  \E s1, s2 \in Sessions :
    /\ T[s1].thread = "done" /\ T[s1].target_id = "PerfettoTrace"
    /\ T[s1].err = "nonempty" /\ T[s1].success
    /\ ~T[s1].command_timed_out
    /\ T[s2].thread = "done" /\ T[s2].err = "empty"
    /\ T[s2].command_timed_out /\ ~T[s2].success

\* C13: a registry entry is removed only by an end request that reaches
\* its response (200), and replaced only by an accepted start request: no
\* step of a session thread or of a keep-alive callback and no status poll
\* changes the registry, so a session stopped by its watchdog stays
\* registered, and is reported not alive once its thread has finished.
C13_OnlyEndRemoves ==
  /\ [](hpc = "idle" =>
         \A r \in Requests : \A st \in {process(r)} :
           /\ st.TRACE_THREADS # TRACE_THREADS =>
                /\ r.name \in {"starttrace", "endtrace"}
                /\ st.resp.code = 200
                /\ r.name = "endtrace" =>
                     st.TRACE_THREADS =
                       RegistryRemove(TRACE_THREADS, r.device, r.targetId)
                /\ r.name = "starttrace" => st.nSess = nSess + 1
           /\ (/\ r \in StatusRequests /\ r.token = secret_token
               /\ ValidDeviceId(r.device)
               /\ Registered(r.device, r.target)
               /\ ~is_alive(TRACE_THREADS[r.device][r.target]))
              => st.resp.code = 200 /\ st.resp.body = "False")
  /\ [][TRACE_THREADS' # TRACE_THREADS =>
          \/ /\ hpc = "idle" /\ hpc' = "idle"
             /\ nSess' = nSess + 1
             /\ resp'.code = 200 /\ resp'.body = ""
          \/ /\ hpc \in {"idle", "end_trace"} /\ hpc' = "idle"
             /\ nSess' = nSess
             /\ resp'.code = 200 /\ resp'.body = "errors"
             /\ \A s \in Sessions :
                  \/ T'[s] = T[s]
                  \/ /\ T'[s] = NoThread
                     /\ T[s].thread = "done" /\ T[s].stopping = 0
             /\ \E d \in DOMAIN TRACE_THREADS :
                  \E t \in DOMAIN TRACE_THREADS[d] :
                    TRACE_THREADS' = RegistryRemove(TRACE_THREADS, d, t)]_vars

\* A session whose watchdog began the stop sequence has finished, the
\* callback is still inside end_trace, no end request was made (the last
\* answer is the one of the start request) and the session is registered.
C13_Witness ==
  /\ resp.code = 200 /\ resp.body = ""
  /\ nSess = 1
  /\ Registered(T[1].device_id, T[1].target_id)
  /\ T[1].stopping = 1
  /\ T[1].process = "exited"
  /\ T[1].thread = "done"

\* C14: no device id maps to an empty target map: a device has a registry
\* entry exactly when one of its targets is registered.
C14_NoEmptyDevice ==
  \A d \in DOMAIN TRACE_THREADS : DOMAIN TRACE_THREADS[d] # {}

\* An end request removed the last target of a device and with it the
\* device, after two sessions were registered on the device.
C14_Witness ==
  /\ nSess = 2
  /\ resp.code = 200 /\ resp.body = "errors"
  /\ TRACE_THREADS = << >>

\* C15: when the shell of a session cannot be spawned while a start request
\* is handled, the request is answered 500 with the message of the tool
\* failure, no session is registered or started, no timer is armed, and the
\* registry is as it was (an entry of the same pair is not replaced).
C15_SpawnFailure ==
  hpc = "idle" =>
    \A r \in StartRequests : \A st \in {process(r)} :
      (/\ ValidDeviceId(r.device) /\ r.content_length = "ok"
       /\ r.targetId # NoKey /\ ~r.adb_launches)
      => /\ st.resp.code = 500 /\ st.resp.body = "str(ex)"
         /\ st.resp.raised = "AdbError"
         /\ st.TRACE_THREADS = TRACE_THREADS
         /\ st.T = T
         /\ st.nSess = nSess
         /\ st.hpc = "idle"

\* A start request failed to spawn its shell while a session of the same
\* pair was registered and running; that session is still the entry.
C15_Witness ==
  /\ hpc = "idle"
  /\ resp.code = 500 /\ resp.body = "str(ex)"
  /\ \E r \in StartRequests :
       /\ ~r.adb_launches
       /\ Registered(r.device, r.targetId)
       /\ T[TRACE_THREADS[r.device][r.targetId]].process = "running"
       /\ T[TRACE_THREADS[r.device][r.targetId]].keep_alive_timer = "armed"
       /\ resp = Sent(process(r).resp)

\* C16: at every moment at most one keep-alive timer of a session is
\* armed, under every interleaving of run(), status polls and stops.
C16_OneArmedTimer ==
  \A s \in Sessions :
    (IF T[s].keep_alive_timer = "armed" THEN 1 ELSE 0) + T[s].leaked <= 1

\* C17: while a stop sequence of a session is under way (begun by an end
\* request or by a keep-alive expiry) no keep-alive timer of the session is
\* armed, and once a stop sequence has interrupted the process no later
\* keep-alive expiry invokes the stop sequence again.
C17_NoWatchdogAfterStop ==
  /\ [](\A s \in Sessions :
          (T[s].stopping > 0 \/ (hpc = "end_trace" /\ hs = s))
          => T[s].keep_alive_timer # "armed" /\ T[s].leaked = 0)
  /\ [][\A s \in Sessions :
          T[s].interrupted => T'[s].stopping <= T[s].stopping]_vars

\* C18: when a keep-alive expiry and an end request race on a session, the
\* running process gets the interrupt at most once: while the stop sequence
\* of one of them is under way and the process still runs, the other one
\* does not begin a stop sequence.
C18_SignalOnce ==
  [][\A s \in Sessions :
       T[s].process = "running" =>
         /\ T[s].stopping > 0 =>
              ~(hpc = "idle" /\ hpc' = "end_trace" /\ hs' = s)
         /\ (hpc = "end_trace" /\ hs = s) =>
              ~(T'[s].stopping > T[s].stopping)]_vars

\* C19: a status poll on a registered session answers True exactly when the
\* process of the session is alive, False as soon as it has exited, and
\* changes nothing but the keep-alive timer.
C19_StatusReportsProcess ==
  /\ [](hpc = "idle" =>
         \A r \in StatusRequests : \A st \in {process(r)} :
           (ValidDeviceId(r.device) /\ Registered(r.device, r.target)) =>
             LET s == TRACE_THREADS[r.device][r.target]
                 NoTimer(rec) ==
                   [rec EXCEPT !.keep_alive_timer = "none", !.leaked = 0]
             IN /\ st.hpc = "idle" =>
                     /\ st.resp.code = 200
                     /\ st.resp.body = IF T[s].process = "running"
                                         THEN "True" ELSE "False"
                /\ st.TRACE_THREADS = TRACE_THREADS
                /\ st.nSess = nSess
                /\ \A x \in Sessions : NoTimer(st.T[x]) = NoTimer(T[x]))
  /\ [][(hpc \in {"status_assign", "status_start"} /\ hpc' = "idle") =>
          /\ resp'.code = 200
          /\ T[hs].process = "running" => resp'.body = "True"]_vars

\* C20: two sessions of one (device, target) pair never run at once: a
\* session that a later start request for the same pair has superseded has
\* no running process and no armed keep-alive timer.
C20_OneSessionPerKey ==
  \A s1, s2 \in Sessions :
    (/\ s1 < s2
     /\ T[s1].process # "none" /\ T[s2].process # "none"
     /\ T[s1].device_id = T[s2].device_id
     /\ T[s1].target_id = T[s2].target_id)
    => /\ T[s1].process # "running"
       /\ T[s1].keep_alive_timer # "armed"
       /\ T[s1].leaked = 0

\* C21: an end request on a registered session is answered through the
\* bounded stop sequence: the cleanup loop of the session thread never
\* passes its bound, and the handler leaves end_trace only when its join
\* on the session thread has returned, the process having exited on the
\* interrupt or been killed after the wait elapsed, also when the process
\* ignores the interrupt.
C21_EndRequestJoins ==
  /\ [](\A s \in Sessions :
          T[s].thread = "poll" => T[s].polls < MaxSentinelPolls)
  /\ [][(hpc = "end_trace" /\ hpc' # "end_trace") =>
          /\ T[hs].process = "exited"
          /\ T[hs].thread = "done"]_vars

====
